---------------------------- MODULE Spec2Model ----------------------------
(***************************************************************************)
(* State-machine model of the MQTT reaction (drasi-reaction-mqtt) and the  *)
(* MQTT source (drasi-source-mqtt).                                        *)
(*                                                                         *)
(* Strings are TLA+ strings.  A template is the sequence of its lexical    *)
(* pieces (text, "{{", a name, "}}"); a byte buffer holding JSON is the     *)
(* sequence of its lexemes ("{", "\"op\"", ":", "12", ...), a byte buffer  *)
(* holding rendered text is a one-piece sequence.  The strings of the      *)
(* model hold no character that JSON or HTML escaping would rewrite.       *)
(***************************************************************************)
EXTENDS Integers, Sequences, FiniteSets, TLC

(***************************************************************************)
(* The record of result_to_payload calls.  The function has no state of    *)
(* its own; these variables hold what a caller passed and got back.        *)
(***************************************************************************)
VARIABLES
  batch,             \* the arguments of the last result_to_payload call
  outcome,           \* what that call returned
  memo               \* an earlier result_to_payload call, kept to compare

(***************************************************************************)
(* Bounds of the model.                                                    *)
(***************************************************************************)
\* most diffs in one query result handed to the reaction
MaxDiffs == 2
\* most query results the processing loop dequeues in one run
MaxBatches == 2
\* most identifiers Uuid::new_v4 is asked for in one run
MaxUuids == 2
\* most events the source's event loop polls in one run
MaxMessages == 3

(***************************************************************************)
(* serde_json::Value.  A value is a pair <<tag, content>>.                 *)
(***************************************************************************)
JNull == <<"null", "null">>
JBool(b) == <<"bool", b>>
JNum(n) == <<"num", n>>
JStr(s) == <<"str", s>>
JArr(seq) == <<"arr", seq>>
JObj(map) == <<"obj", map>>

IsObject(v) == v[1] = "obj"

\* Result<T, E>
Ok(v) == [ok |-> TRUE, val |-> v]
Err(e) == [ok |-> FALSE, val |-> e]

\* The keys of the model in the order serde_json's map iterates them
\* (byte order of the key).
KeyOrder ==
  <<"added", "device", "id", "op", "query_id", "removed", "sequence",
    "temp", "updated", "val">>

RECURSIVE SortedKeysFrom(_, _)
SortedKeysFrom(dom, i) ==
  IF i > Len(KeyOrder) THEN <<>>
  ELSE (IF KeyOrder[i] \in dom THEN <<KeyOrder[i]>> ELSE <<>>)
         \o SortedKeysFrom(dom, i + 1)

SortedKeys(map) == SortedKeysFrom(DOMAIN map, 1)

\* Map::insert: the new value replaces the one the key had
MapInsert(map, k, v) ==
  [x \in (DOMAIN map) \cup {k} |-> IF x = k THEN v ELSE map[x]]

(***************************************************************************)
(* Integer formatting (itoa), as used by Number's Display and by the JSON  *)
(* serializer.                                                             *)
(***************************************************************************)
Digit == <<"0", "1", "2", "3", "4", "5", "6", "7", "8", "9">>

RECURSIVE NatToString(_)
NatToString(n) ==
  IF n < 10 THEN Digit[n + 1]
  ELSE NatToString(n \div 10) \o Digit[(n % 10) + 1]

IntToString(n) == IF n < 0 THEN "-" \o NatToString(0 - n) ELSE NatToString(n)

\* a JSON string literal
Quote(s) == "\"" \o s \o "\""

(***************************************************************************)
(* serde_json::to_vec: the lexemes of the compact encoding.                *)
(***************************************************************************)
RECURSIVE JoinComma(_)
JoinComma(parts) ==
  IF parts = <<>> THEN <<>>
  ELSE IF Len(parts) = 1 THEN parts[1]
  ELSE parts[1] \o <<",">> \o JoinComma(Tail(parts))

RECURSIVE to_vec(_)
to_vec(v) ==
  CASE v[1] = "null" -> <<"null">>
    [] v[1] = "bool" -> <<IF v[2] THEN "true" ELSE "false">>
    [] v[1] = "num" -> <<IntToString(v[2])>>
    [] v[1] = "str" -> <<Quote(v[2])>>
    [] v[1] = "arr" ->
         <<"[">> \o JoinComma([i \in 1..Len(v[2]) |-> to_vec(v[2][i])]) \o <<"]">>
    [] v[1] = "obj" ->
         LET keys == SortedKeys(v[2])
         IN <<"{">>
              \o JoinComma([i \in 1..Len(keys) |->
                              <<Quote(keys[i]), ":">> \o to_vec(v[2][keys[i]])])
              \o <<"}">>

(***************************************************************************)
(* serde_json::from_slice: a recursive-descent parse of the lexemes.  A    *)
(* parse step answers [ok, val, next]: the value read and the position     *)
(* after it.                                                               *)
(***************************************************************************)
\* every string a JSON document of the model can hold (keys and values)
Strings ==
  {"added", "device", "id", "op", "query_id", "removed", "sequence", "temp",
   "updated", "val", "d1", "d2", "x", "q1", "q2", "insert", "update",
   "delete", "sensor-1", "42", ""}

\* every integer a JSON document of the model can hold
JsonInts == (0 - 5) .. 45

StrLexeme == [s \in Strings |-> Quote(s)]
NumLexeme == [n \in JsonInts |-> IntToString(n)]

IsStrTok(t) == \E s \in Strings : StrLexeme[s] = t
StrOfTok(t) == CHOOSE s \in Strings : StrLexeme[s] = t
IsNumTok(t) == \E n \in JsonInts : NumLexeme[n] = t
NumOfTok(t) == CHOOSE n \in JsonInts : NumLexeme[n] = t

Parsed(v, next) == [ok |-> TRUE, val |-> v, next |-> next]
ParseFail == [ok |-> FALSE, val |-> "syntax", next |-> 0]

RECURSIVE ParseValue(_, _)
RECURSIVE ParseElems(_, _, _)
RECURSIVE ParseMembers(_, _, _)
RECURSIVE AfterElem(_, _, _)
RECURSIVE AfterMember(_, _, _, _)

\* after one element of an array: "]" ends it, "," goes on
AfterElem(toks, e, acc) ==
  IF ~e.ok \/ e.next > Len(toks) THEN ParseFail
  ELSE IF toks[e.next] = "]" THEN Parsed(JArr(Append(acc, e.val)), e.next + 1)
  ELSE IF toks[e.next] = "," THEN ParseElems(toks, e.next + 1, Append(acc, e.val))
  ELSE ParseFail

\* the elements of an array after "[" or ",": acc holds those read so far
ParseElems(toks, i, acc) == AfterElem(toks, ParseValue(toks, i), acc)

\* after one member of an object: "}" ends it, "," goes on
AfterMember(toks, key, e, acc) ==
  IF ~e.ok \/ e.next > Len(toks) THEN ParseFail
  ELSE IF toks[e.next] = "}"
    THEN Parsed(JObj(MapInsert(acc, key, e.val)), e.next + 1)
  ELSE IF toks[e.next] = ","
    THEN ParseMembers(toks, e.next + 1, MapInsert(acc, key, e.val))
  ELSE ParseFail

\* the members of an object after "{" or ",": acc holds those read so far
ParseMembers(toks, i, acc) ==
  IF i + 1 > Len(toks) \/ ~IsStrTok(toks[i]) \/ toks[i + 1] # ":" THEN ParseFail
  ELSE AfterMember(toks, StrOfTok(toks[i]), ParseValue(toks, i + 2), acc)

\* one value at position i
ParseToken(toks, i, t) ==
  CASE t = "null" -> Parsed(JNull, i + 1)
    [] t = "true" -> Parsed(JBool(TRUE), i + 1)
    [] t = "false" -> Parsed(JBool(FALSE), i + 1)
    [] t = "[" ->
         IF i + 1 <= Len(toks) /\ toks[i + 1] = "]"
         THEN Parsed(JArr(<<>>), i + 2)
         ELSE ParseElems(toks, i + 1, <<>>)
    [] t = "{" ->
         IF i + 1 <= Len(toks) /\ toks[i + 1] = "}"
         THEN Parsed(JObj(<<>>), i + 2)
         ELSE ParseMembers(toks, i + 1, <<>>)
    [] OTHER ->
         IF IsStrTok(t) THEN Parsed(JStr(StrOfTok(t)), i + 1)
         ELSE IF IsNumTok(t) THEN Parsed(JNum(NumOfTok(t)), i + 1)
         ELSE ParseFail

ParseValue(toks, i) ==
  IF i > Len(toks) THEN ParseFail ELSE ParseToken(toks, i, toks[i])

\* the whole buffer must be one value: trailing input is an error
WholeValue(bytes, p) ==
  IF p.ok /\ p.next = Len(bytes) + 1 THEN Ok(p.val) ELSE Err("syntax")

from_slice(bytes) == WholeValue(bytes, ParseValue(bytes, 1))

(***************************************************************************)
(* Handlebars.  The registry is the one MqttReaction::new builds with      *)
(* Handlebars::new(): no helper, no partial, strict mode off.              *)
(***************************************************************************)
Registry == [strict_mode |-> FALSE]

\* the string a template is: its pieces, concatenated
RECURSIVE to_string(_)
to_string(template) ==
  IF template = <<>> THEN "" ELSE Head(template) \o to_string(Tail(template))

\* str::contains over the pieces of a template
Contains(template, piece) == \E i \in 1..Len(template) : template[i] = piece

\* an element put before the elements compiled after it
Prepend(element, rest) ==
  IF rest.ok THEN Ok(<<element>> \o rest.val) ELSE rest

\* Template::compile: text pieces and {{name}} expressions; an expression
\* that is not closed is a template error.
RECURSIVE Compile(_)
Compile(template) ==
  IF template = <<>> THEN Ok(<<>>)
  ELSE IF Head(template) = "{{" THEN
    IF Len(template) >= 3 /\ template[2] \notin {"{{", "}}"} /\ template[3] = "}}"
    THEN Prepend(<<"expr", template[2]>>, Compile(SubSeq(template, 4, Len(template))))
    ELSE Err("TemplateError")
  ELSE Prepend(<<"text", Head(template)>>, Compile(Tail(template)))

\* how Handlebars writes a JSON value into the output
RenderValue(v) ==
  CASE v[1] = "null" -> ""
    [] v[1] = "bool" -> IF v[2] THEN "true" ELSE "false"
    [] v[1] = "num" -> IntToString(v[2])
    [] v[1] = "str" -> v[2]
    [] v[1] = "arr" -> "[array]"
    [] v[1] = "obj" -> "[object]"

\* one {{name}} expression against the context: a name the context does not
\* have renders as the empty string unless the registry is strict
RenderExpr(registry, name, context) ==
  IF IsObject(context) /\ name \in DOMAIN context[2]
  THEN Ok(RenderValue(context[2][name]))
  ELSE IF registry.strict_mode THEN Err("RenderError")
  ELSE Ok("")

\* the output so far and the output of what follows; the first error wins
Concat(first, rest) ==
  IF ~first.ok THEN first
  ELSE IF ~rest.ok THEN rest
  ELSE Ok(first.val \o rest.val)

RenderElement(registry, element, context) ==
  IF element[1] = "text" THEN Ok(element[2])
  ELSE RenderExpr(registry, element[2], context)

RECURSIVE RenderElements(_, _, _)
RenderElements(registry, elements, context) ==
  IF elements = <<>> THEN Ok("")
  ELSE Concat(RenderElement(registry, Head(elements), context),
              RenderElements(registry, Tail(elements), context))

RenderCompiled(registry, compiled, context) ==
  IF compiled.ok THEN RenderElements(registry, compiled.val, context)
  ELSE compiled

\* Handlebars::render_template: compile the template, then render it
render_template(registry, template, context) ==
  RenderCompiled(registry, Compile(template), context)

\* String::into_bytes of a rendered text
into_bytes(text) == <<text>>

(***************************************************************************)
(* publisher::result_to_payload.  payload_template is None or Some(t).     *)
(***************************************************************************)
None == <<"None">>
Some(t) == <<"Some", t>>
is_some(opt) == opt[1] = "Some"

\* mutant of split_mode: the payload template is not looked at
split_mode_topic_only(topic_template, payload_template) ==
  Contains(topic_template, "{{")

\* the mode, decided once per call
split_mode(topic_template, payload_template) ==
  Contains(topic_template, "{{") \/ is_some(payload_template)

\* mutant of make_context: a key the item already has is kept
make_context_keep_own(item, query_id, sequence, op) ==
  IF IsObject(item)
  THEN JObj([k \in (DOMAIN item[2]) \cup {"query_id", "sequence", "op"} |->
               IF k \in DOMAIN item[2] THEN item[2][k]
               ELSE IF k = "query_id" THEN JStr(query_id)
               ELSE IF k = "sequence" THEN JNum(sequence)
               ELSE JStr(op)])
  ELSE item

\* mutant of make_context: the sequence number is inserted as
\* map.entry("sequence").or_insert would, so the item's own one stays
make_context_or_insert_sequence(item, query_id, sequence, op) ==
  IF IsObject(item)
  THEN JObj(MapInsert(MapInsert(MapInsert(item[2],
              "query_id", JStr(query_id)),
              "sequence", IF "sequence" \in DOMAIN item[2]
                          THEN item[2]["sequence"] ELSE JNum(sequence)),
              "op", JStr(op)))
  ELSE item

\* mutant of make_context: the sequence number is the one after the last
\* call's, counted by the function, and not the argument
make_context_own_counter(item, query_id, sequence, op) ==
  IF IsObject(item)
  THEN JObj(MapInsert(MapInsert(MapInsert(item[2],
              "query_id", JStr(query_id)),
              "sequence", JNum(batch.sequence + 1)),
              "op", JStr(op)))
  ELSE item

\* the context of one item: the item, and when it is an object the three
\* injected keys, inserted over whatever the item had under them
make_context(item, query_id, sequence, op) ==
  IF IsObject(item)
  THEN JObj(MapInsert(MapInsert(MapInsert(item[2],
              "query_id", JStr(query_id)),
              "sequence", JNum(sequence)),
              "op", JStr(op)))
  ELSE item

\* the bytes of a rendered payload template, or its render error
rendered_bytes(text) == IF text.ok THEN Ok(into_bytes(text.val)) ELSE text

\* mutant of render_payload: the context is serialized whether or not a
\* payload template is present
render_payload_always_json(context, registry, payload_template) ==
  Ok(to_vec(context))

\* the payload of one item: the rendered payload template, or with no
\* template the serialized context
render_payload(context, registry, payload_template) ==
  IF is_some(payload_template)
  THEN rendered_bytes(render_template(registry, payload_template[2], context))
  ELSE Ok(to_vec(context))

\* the message of one item; the topic's error comes before the payload's
message_of(topic, payload) ==
  IF ~topic.ok THEN topic
  ELSE IF ~payload.ok THEN payload
  ELSE Ok(<<topic.val, payload.val>>)

render_context(context, registry, topic_template, payload_template) ==
  message_of(render_template(registry, topic_template, context),
             render_payload(context, registry, payload_template))

\* the body of the for loop of process_list: the (topic, payload) pair of
\* one item, or the render error
render_item(item, query_id, sequence, op, registry, topic_template, payload_template) ==
  render_context(make_context(item, query_id, sequence, op), registry,
                 topic_template, payload_template)

\* the closure process_list: appends one message per item to messages, and
\* returns at the first item that fails with that error
RECURSIVE process_list(_, _, _, _, _, _, _, _)
RECURSIVE push_message(_, _, _, _, _, _, _, _, _)
\* mutant of push_message: the message is put before those collected so far
push_message_prepend(m, messages, rest, op, query_id, sequence, registry, topic_template, payload_template) ==
  IF ~m.ok THEN m
  ELSE process_list(<<m.val>> \o messages, rest, op, query_id, sequence,
                    registry, topic_template, payload_template)

\* mutant of push_message: an item that fails to render is skipped
push_message_skip_failed(m, messages, rest, op, query_id, sequence, registry, topic_template, payload_template) ==
  IF ~m.ok
  THEN process_list(messages, rest, op, query_id, sequence, registry,
                    topic_template, payload_template)
  ELSE process_list(Append(messages, m.val), rest, op, query_id, sequence,
                    registry, topic_template, payload_template)

push_message(m, messages, rest, op, query_id, sequence, registry, topic_template, payload_template) ==
  IF ~m.ok THEN m
  ELSE process_list(Append(messages, m.val), rest, op, query_id, sequence,
                    registry, topic_template, payload_template)

\* mutant of process_list: an item that is not an object gives no message
process_list_objects_only(messages, list, op, query_id, sequence, registry, topic_template, payload_template) ==
  IF list = <<>> THEN Ok(messages)
  ELSE IF ~IsObject(Head(list))
  THEN process_list(messages, Tail(list), op, query_id, sequence, registry,
                    topic_template, payload_template)
  ELSE process_list(Append(messages,
                           render_item(Head(list), query_id, sequence, op,
                                       registry, topic_template,
                                       payload_template).val),
                    Tail(list), op, query_id, sequence, registry,
                    topic_template, payload_template)

process_list(messages, list, op, query_id, sequence, registry, topic_template, payload_template) ==
  IF list = <<>> THEN Ok(messages)
  ELSE push_message(render_item(Head(list), query_id, sequence, op, registry,
                                topic_template, payload_template),
                    messages, Tail(list), op, query_id, sequence, registry,
                    topic_template, payload_template)

\* process_list(list, op)?: an earlier error ends the call
try_process_list(sofar, list, op, query_id, sequence, registry, topic_template, payload_template) ==
  IF sofar.ok
  THEN process_list(sofar.val, list, op, query_id, sequence, registry,
                    topic_template, payload_template)
  ELSE sofar

\* mutant of batch_message: the updated and removed lists change places
batch_message_swapped(query_id, sequence, added, updated, removed, topic_template) ==
  <<to_string(topic_template),
    to_vec(JObj([query_id |-> JStr(query_id),
                 sequence |-> JNum(sequence),
                 added |-> JArr(added),
                 updated |-> JArr(removed),
                 removed |-> JArr(updated)]))>>

\* the one message of batch mode
batch_message(query_id, sequence, added, updated, removed, topic_template) ==
  LET payload == JObj([query_id |-> JStr(query_id),
                       sequence |-> JNum(sequence),
                       added |-> JArr(added),
                       updated |-> JArr(updated),
                       removed |-> JArr(removed)])
  IN <<to_string(topic_template), to_vec(payload)>>

result_to_payload(query_id, sequence, added, updated, removed, registry, topic_template, payload_template) ==
  IF split_mode(topic_template, payload_template)
  THEN try_process_list(
         try_process_list(
           try_process_list(Ok(<<>>), added, "insert", query_id, sequence,
                            registry, topic_template, payload_template),
           updated, "update", query_id, sequence, registry, topic_template,
           payload_template),
         removed, "delete", query_id, sequence, registry, topic_template,
         payload_template)
  ELSE Ok(<<batch_message(query_id, sequence, added, updated, removed,
                          topic_template)>>)

(***************************************************************************)
(* The inputs of the model.                                                *)
(***************************************************************************)
\* entity snapshots a query result can carry; the last is not an object
E1 == JObj([device |-> JStr("d1"), val |-> JNum(1)])
E2 == JObj([device |-> JStr("d2"), op |-> JStr("x")])
E3 == JNum(7)
Entities == {E1, E2, E3}

\* drasi_lib::channels::ResultDiff
Diffs ==
  {[kind |-> "Add", data |-> e] : e \in Entities}
    \cup {[kind |-> "Delete", data |-> e] : e \in Entities}
    \cup {[kind |-> "Update", before |-> E1, after |-> E2],
          [kind |-> "Update", before |-> E2, after |-> E1],
          [kind |-> "Update", before |-> E1, after |-> E3]}
    \cup {[kind |-> "Noop"]}

SeqsUpTo(S, n) == UNION {[1..k -> S] : k \in 0..n}

QueryIds == {"q1", "q2"}

\* the query results the priority queue can hand over
QueryResults == [query_id : QueryIds, results : SeqsUpTo(Diffs, MaxDiffs)]

\* MqttReactionConfig::topic
TopicTemplates ==
  {<<"static/topic">>,
   <<"devices/", "{{", "device", "}}", "/data">>,
   <<"{{", "query_id", "}}", "/", "{{", "op", "}}", "/", "{{", "sequence", "}}">>,
   <<"devices/", "{{", "device">>}

\* MqttReactionConfig::payload_template
PayloadTemplates ==
  {None,
   Some(<<"Alert: ", "{{", "val", "}}">>),
   Some(<<"Alert: ", "{{", "val">>)}

(***************************************************************************)
(* The reaction: MqttReaction::start's processing loop.                    *)
(***************************************************************************)
VARIABLES
  \* the reaction (MqttReaction)
  topic_template,    \* config.topic
  payload_template,  \* config.payload_template
  sequence,          \* the processing loop's counter
  pc,                \* where the loop is: "select", "publish", "iter_end",
                     \* "stopped"; "direct" when result_to_payload is called
                     \* by a user of the library
  published,         \* the messages of the last call handed to client.publish
  last_publish,      \* how the last client.publish ended: "none", "ok", "err"
  lifecycle,         \* when kept: the reaction's client handle, its event
                     \* loop driver task and the progress of stop()
  dequeued,          \* when kept: the diffs of the result the loop body is
                     \* working on
  history,           \* when kept: the publish attempts of the run in order,
                     \* and how many results each query id has delivered
  \* the source (MqttSource) and its mapper
  id_field,          \* config.id_field
  mode,              \* the mapper's operation mode
  s_input,           \* the payload of the last payload_to_source_change call
  s_result,          \* what that call returned
  s_memo,            \* an earlier payload_to_source_change call, kept to compare
  generated,         \* the identifiers Uuid::new_v4 has returned, in order
  \* the source's event loop task (MqttSource::start)
  l_pc,              \* where the task is: "select", "dispatch", "stopped";
                     \* "off" when the source is not started
  arrived,           \* the events eventloop.poll has returned, in order
  pending,           \* the change being dispatched, with its event's number
  dispatched,        \* the calls of dispatch_source_change that have returned
  seen_ids,          \* MqttSource::seen_ids
  stop_requested     \* the shutdown signal has been sent

reaction_vars ==
  <<topic_template, payload_template, sequence, pc, batch, outcome, published,
    last_publish, memo, dequeued, history, lifecycle>>

loop_vars == <<l_pc, arrived, pending, dispatched, seen_ids, stop_requested>>

source_vars ==
  <<id_field, mode, s_input, s_result, s_memo, generated, loop_vars>>

vars == <<reaction_vars, source_vars>>

NoMemo == [set |-> FALSE, between |-> FALSE]

NoCall == [set |-> FALSE]

NoHistory == [on |-> FALSE]

NoDequeued == [on |-> FALSE]

NoLifecycle == [on |-> FALSE]

\* the source's event loop task is not part of the run
LoopOff ==
  /\ l_pc = "off"
  /\ arrived = <<>>
  /\ pending = None
  /\ dispatched = <<>>
  /\ seen_ids = {}
  /\ stop_requested = FALSE

\* the source is not part of the run
SourceOff ==
  /\ LoopOff
  /\ id_field = "id"
  /\ mode = "Insert"
  /\ s_input = <<>>
  /\ s_result = Err("none")
  /\ s_memo = NoCall
  /\ generated = <<>>

NoBatch ==
  [query_id |-> "", sequence |-> 0, added |-> <<>>, updated |-> <<>>,
   removed |-> <<>>]

\* the match on a diff with the Update arm pushing the value before the change
push_diff_update_before(acc, diff) ==
  CASE diff.kind = "Add" -> [acc EXCEPT !.added = Append(@, diff.data)]
    [] diff.kind = "Delete" -> [acc EXCEPT !.removed = Append(@, diff.data)]
    [] diff.kind = "Update" -> [acc EXCEPT !.updated = Append(@, diff.before)]
    [] OTHER -> acc

\* one arm of the match on a diff
push_diff(acc, diff) ==
  CASE diff.kind = "Add" -> [acc EXCEPT !.added = Append(@, diff.data)]
    [] diff.kind = "Delete" -> [acc EXCEPT !.removed = Append(@, diff.data)]
    [] diff.kind = "Update" -> [acc EXCEPT !.updated = Append(@, diff.after)]
    [] OTHER -> acc

\* the for loop over result.results
RECURSIVE split_diffs(_, _)
split_diffs(results, acc) ==
  IF results = <<>> THEN acc
  ELSE split_diffs(Tail(results), push_diff(acc, Head(results)))

Init ==
  /\ topic_template \in TopicTemplates
  /\ payload_template \in PayloadTemplates
  /\ sequence = 0
  /\ pc = "select"
  /\ batch = NoBatch
  /\ outcome = Ok(<<>>)
  /\ published = <<>>
  /\ last_publish = "none"
  /\ memo = NoMemo
  /\ dequeued = NoDequeued
  /\ lifecycle = NoLifecycle
  /\ history = NoHistory
  /\ SourceOff

\* the match on what result_to_payload returned
MatchOutcome(out) ==
  /\ outcome' = out
  /\ pc' = IF out.ok /\ out.val # <<>> THEN "publish" ELSE "iter_end"

\* the call of result_to_payload with the lists of the result
RenderBatch(query_id, seq, lists) ==
  /\ batch' = [query_id |-> query_id, sequence |-> seq, added |-> lists.added,
               updated |-> lists.updated, removed |-> lists.removed]
  /\ MatchOutcome(result_to_payload(query_id, seq, lists.added, lists.updated,
                                    lists.removed, Registry, topic_template,
                                    payload_template))

\* the diffs the loop body now works on, when they are kept
taken(results) ==
  IF dequeued.on THEN [on |-> TRUE, results |-> results] ELSE dequeued

\* the history with one more result of the query id, when a history is kept
observed_one(query_id) ==
  IF history.on THEN [history EXCEPT !.observed[query_id] = @ + 1] ELSE history

\* the dequeue arm of select!, up to the first client.publish
Dequeue(result) ==
  /\ pc = "select"
  /\ sequence < MaxBatches
  /\ sequence' = sequence + 1
  /\ RenderBatch(result.query_id, sequence + 1,
                 split_diffs(result.results,
                             [added |-> <<>>, updated |-> <<>>, removed |-> <<>>]))
  /\ published' = <<>>
  /\ last_publish' = "none"
  /\ dequeued' = taken(result.results)
  /\ history' = observed_one(result.query_id)
  /\ UNCHANGED <<topic_template, payload_template, memo, lifecycle, source_vars>>

\* mutant of next_message: the messages are taken from the end of the list
next_message_from_end(messages, attempted) == messages[Len(messages) - attempted]

\* the message of the next turn of the for loop over messages
next_message(messages, attempted) == messages[attempted + 1]

\* mutant of after_publish: an error of client.publish ends the for loop
after_publish_break(ok, attempted, total) ==
  IF ~ok \/ attempted = total THEN "iter_end" ELSE "publish"

\* where the loop goes after client.publish returned: the next message, or
\* the end of the loop body after the last one
after_publish(ok, attempted, total) ==
  IF attempted = total THEN "iter_end" ELSE "publish"

\* the history with one more publish attempt, when a history is kept
attempted_one(ok) ==
  IF history.on
  THEN [history EXCEPT !.attempts =
          Append(@, [sequence |-> sequence, index |-> Len(published) + 1,
                     of |-> Len(outcome.val), ok |-> ok])]
  ELSE history

\* one turn of the for loop over messages; client.publish returns Ok
PublishOk ==
  /\ pc = "publish"
  /\ published' = Append(published, next_message(outcome.val, Len(published)))
  /\ last_publish' = "ok"
  /\ pc' = after_publish(TRUE, Len(published) + 1, Len(outcome.val))
  /\ history' = attempted_one(TRUE)
  /\ UNCHANGED <<topic_template, payload_template, sequence, batch, outcome,
                 memo, dequeued, lifecycle, source_vars>>

\* one turn of the for loop over messages; client.publish returns Err
PublishErr ==
  /\ pc = "publish"
  /\ published' = Append(published, next_message(outcome.val, Len(published)))
  /\ last_publish' = "err"
  /\ pc' = after_publish(FALSE, Len(published) + 1, Len(outcome.val))
  /\ history' = attempted_one(FALSE)
  /\ UNCHANGED <<topic_template, payload_template, sequence, batch, outcome,
                 memo, dequeued, lifecycle, source_vars>>

\* the end of the loop body: the locals of the iteration are dropped and the
\* loop is back at select!
EndIteration ==
  /\ pc = "iter_end"
  /\ pc' = "select"
  /\ batch' = NoBatch
  /\ outcome' = Ok(<<>>)
  /\ published' = <<>>
  /\ last_publish' = "none"
  /\ dequeued' = taken(<<>>)
  /\ UNCHANGED <<topic_template, payload_template, sequence, memo, history,
                 lifecycle, source_vars>>

\* shutdown_rx resolves once stop() has sent the signal; when the lifecycle is
\* not kept the signal may come at any time
shutdown_rx_ready == lifecycle.on => lifecycle.shutdown

\* the shutdown arm of select!
Shutdown ==
  /\ pc = "select"
  /\ shutdown_rx_ready
  /\ pc' = "stopped"
  /\ UNCHANGED <<topic_template, payload_template, sequence, batch, outcome,
                 published, last_publish, memo, dequeued, history, lifecycle,
                 source_vars>>

Next ==
  \/ \E result \in QueryResults : Dequeue(result)
  \/ PublishOk
  \/ PublishErr
  \/ EndIteration
  \/ Shutdown

Spec == Init /\ [][Next]_vars

(***************************************************************************)
(* What the claims speak of.                                               *)
(***************************************************************************)
\* batch and outcome hold a call of result_to_payload
Called == pc \in {"publish", "iter_end"}

\* the condition of split mode, in the words of the configuration
SplitConfig == Contains(topic_template, "{{") \/ payload_template # None

\* the entities of the batch in the order added, updated, removed
AllEntities == batch.added \o batch.updated \o batch.removed
Total == Len(AllEntities)

\* the op of the list the i-th entity is in
OpAt(i) ==
  IF i <= Len(batch.added) THEN "insert"
  ELSE IF i <= Len(batch.added) + Len(batch.updated) THEN "update"
  ELSE "delete"

InjectedKeys == {"query_id", "sequence", "op"}

\* the context the specification describes for an object entity: its fields
\* plus the three injected keys
ExpectedContext(e, op) ==
  JObj([k \in (DOMAIN e[2]) \cup InjectedKeys |->
          CASE k = "query_id" -> JStr(batch.query_id)
            [] k = "sequence" -> JNum(batch.sequence)
            [] k = "op" -> JStr(op)
            [] OTHER -> e[2][k]])

\* the outcome is the one message of batch mode: its payload decodes to an
\* object with exactly the five keys of a batch
IsBatchShape(o) ==
  /\ o.ok
  /\ Len(o.val) = 1
  /\ LET d == from_slice(o.val[1][2])
     IN /\ d.ok
        /\ IsObject(d.val)
        /\ DOMAIN d.val[2] = {"query_id", "sequence", "added", "updated", "removed"}

\* C1: result_to_payload runs in batch mode exactly when the topic template
\* holds no "{{" and no payload template is present, and in split mode for
\* every other configuration.
C1_ModeSelection == Called => (IsBatchShape(outcome) <=> ~SplitConfig)

\* a split-mode call decided by the payload template alone, with two messages
C1_Witness ==
  /\ Called
  /\ ~Contains(topic_template, "{{")
  /\ payload_template # None
  /\ outcome.ok
  /\ Len(outcome.val) = 2
  /\ ~IsBatchShape(outcome)

\* C2: in split mode the messages come in the order of the entities of added,
\* then updated, then removed: the i-th message is the message of the i-th
\* entity of that order, rendered with the op of its list.
C2_SplitOrder ==
  (Called /\ SplitConfig /\ outcome.ok) =>
    /\ Len(outcome.val) = Total
    /\ \A i \in 1..Total :
         outcome.val[i] =
           render_item(AllEntities[i], batch.query_id, batch.sequence, OpAt(i),
                       Registry, topic_template, payload_template).val

\* two lists hold an entity each and their two messages differ
C2_Witness ==
  /\ Called /\ SplitConfig /\ outcome.ok
  /\ Len(batch.added) = 1 /\ Len(batch.removed) = 1
  /\ batch.added[1] # batch.removed[1]
  /\ outcome.val[1][1] # outcome.val[2][1]

\* C3: in split mode a successful call returns one message per entity, so
\* none for a batch with three empty lists.
C3_OnePerEntity ==
  (Called /\ SplitConfig /\ outcome.ok) =>
    /\ Len(outcome.val) = Len(batch.added) + Len(batch.updated) + Len(batch.removed)
    /\ (Total = 0 => outcome.val = <<>>)

\* a split-mode call over two entities, one of them not an object
C3_Witness ==
  /\ Called /\ SplitConfig /\ outcome.ok
  /\ Len(batch.added) + Len(batch.updated) + Len(batch.removed) = 2
  /\ \E i \in 1..Total : ~IsObject(AllEntities[i])
  /\ Len(outcome.val) = 2

\* C4: in batch mode every batch, the empty one too, gives one message: its
\* topic is the topic template and its payload decodes to the query id, the
\* sequence and the three lists, element for element.
C4_BatchRoundTrip ==
  (Called /\ ~SplitConfig) =>
    /\ outcome.ok
    /\ Len(outcome.val) = 1
    /\ outcome.val[1][1] = to_string(topic_template)
    /\ LET d == from_slice(outcome.val[1][2])
       IN /\ d.ok
          /\ d.val = JObj([query_id |-> JStr(batch.query_id),
                           sequence |-> JNum(batch.sequence),
                           added |-> JArr(batch.added),
                           updated |-> JArr(batch.updated),
                           removed |-> JArr(batch.removed)])

\* a batch-mode call whose added list holds two different entities
C4_Witness ==
  /\ Called /\ ~SplitConfig /\ outcome.ok
  /\ Len(batch.added) = 2
  /\ batch.added[1] # batch.added[2]
  /\ from_slice(outcome.val[1][2]).val[2]["added"] = JArr(batch.added)

\* the two dynamic topic templates of the model
DeviceTopic == <<"devices/", "{{", "device", "}}", "/data">>
MetaTopic ==
  <<"{{", "query_id", "}}", "/", "{{", "op", "}}", "/", "{{", "sequence", "}}">>

\* the topic MetaTopic renders to when the context holds the injected keys
MetaTopicOf(op) ==
  batch.query_id \o "/" \o op \o "/" \o IntToString(batch.sequence)

ContextAt(i) ==
  IF IsObject(AllEntities[i]) THEN ExpectedContext(AllEntities[i], OpAt(i))
  ELSE AllEntities[i]

TemplateNames(t) ==
  {t[j + 1] : j \in {i \in 1..(Len(t) - 2) : t[i] = "{{" /\ t[i + 2] = "}}"}}

ReferencedNames ==
  TemplateNames(topic_template)
    \cup (IF payload_template = None THEN {} ELSE TemplateNames(payload_template[2]))

\* the keys of the context of an entity
ContextKeys(e) == IF IsObject(e) THEN (DOMAIN e[2]) \cup InjectedKeys ELSE {}

\* C7: a call that renders, for an object entity, a template naming a key
\* the entity's context does not have fails with a render error.
C7_MissingKeyFails ==
  (/\ Called /\ SplitConfig
   /\ \A i \in 1..Total : IsObject(AllEntities[i])
   /\ \E i \in 1..Total : ~(ReferencedNames \subseteq ContextKeys(AllEntities[i])))
    => ~outcome.ok

\* the i-th entity of the batch fails to render
FailsAt(i) ==
  ~render_item(AllEntities[i], batch.query_id, batch.sequence, OpAt(i),
               Registry, topic_template, payload_template).ok

E4 ==
  JObj([device |-> JStr("d2"), op |-> JStr("x"), query_id |-> JStr("x"),
        sequence |-> JNum(42)])

\* the lists a caller passes: added, updated, removed
DirectLists ==
  {<<<<>>, <<>>, <<>>>>,
   <<<<E1, E2>>, <<>>, <<>>>>,
   <<<<E2>>, <<E3>>, <<E1>>>>,
   <<<<E4>>, <<E4>>, <<E1>>>>}

\* the arguments of a call, the templates apart
DirectCalls ==
  {[query_id |-> q, sequence |-> n, added |-> l[1], updated |-> l[2],
    removed |-> l[3]] : q \in QueryIds, n \in 1..MaxBatches, l \in DirectLists}

\* the reaction is not part of the run
ReactionOff ==
  /\ topic_template = <<"static/topic">>
  /\ payload_template = None
  /\ sequence = 0
  /\ pc = "off"
  /\ batch = NoBatch
  /\ outcome = Ok(<<>>)
  /\ published = <<>>
  /\ last_publish = "none"
  /\ memo = NoMemo
  /\ dequeued = NoDequeued
  /\ lifecycle = NoLifecycle
  /\ history = NoHistory

InitRender ==
  /\ topic_template \in TopicTemplates
  /\ payload_template \in PayloadTemplates
  /\ sequence = 0
  /\ pc = "direct"
  /\ batch = NoBatch
  /\ outcome = Ok(<<>>)
  /\ published = <<>>
  /\ last_publish = "none"
  /\ memo = NoMemo
  /\ dequeued = NoDequeued
  /\ lifecycle = NoLifecycle
  /\ history = NoHistory
  /\ SourceOff

\* the earlier call kept for comparison: this one when keep says so,
\* otherwise the one already kept, with a note when this call differs from it
Remembered(call, out, keep) ==
  IF keep THEN [set |-> TRUE, between |-> FALSE, batch |-> call, outcome |-> out]
  ELSE IF memo.set /\ memo.batch # call THEN [memo EXCEPT !.between = TRUE]
  ELSE memo

Returned(call, out, keep) ==
  /\ batch' = call
  /\ outcome' = out
  /\ memo' = Remembered(call, out, keep)

\* one call of result_to_payload with the registry and the templates
DirectCall(call, keep) ==
  /\ pc = "direct"
  /\ Returned(call,
              result_to_payload(call.query_id, call.sequence, call.added,
                                call.updated, call.removed, Registry,
                                topic_template, payload_template),
              keep)
  /\ UNCHANGED <<topic_template, payload_template, sequence, pc, published,
                 last_publish, dequeued, history, lifecycle, source_vars>>

NextRender == \E call \in DirectCalls, keep \in BOOLEAN : DirectCall(call, keep)

SpecRender == InitRender /\ [][NextRender]_vars

Uuid(k) == "00000000-0000-4000-8000-00000000000" \o Digit[k + 1]

\* the values Uuid::new_v4 can return in a run
UuidPool == {Uuid(k) : k \in 1..MaxUuids}

\* MqttSourceConfig::node_label, its default
default_node_label == "MqttMessage"

\* crate::config::OperationMode
OperationModes == {"Insert", "Update"}

Range(f) == {f[i] : i \in DOMAIN f}

\* serde_json::Value::get with a string index
get(json, key) ==
  IF IsObject(json) /\ key \in DOMAIN json[2] THEN Some(json[2][key]) ELSE None

\* mutant of id_of_value: a number is not taken as an id
id_of_value_strings_only(v) ==
  CASE v[1] = "str" -> Some(v[2])
    [] OTHER -> None

\* the closure of and_then: a string as it is, a number formatted
id_of_value(v) ==
  CASE v[1] = "str" -> Some(v[2])
    [] v[1] = "num" -> Some(IntToString(v[2]))
    [] OTHER -> None

and_then_id(found) == IF is_some(found) THEN id_of_value(found[2]) ELSE None

\* Uuid::new_v4 is called: unwrap_or_else runs its closure
calls_new_v4(json, field) == ~is_some(and_then_id(get(json, field)))

unwrap_or(opt, new_v4) == IF is_some(opt) THEN opt[2] ELSE new_v4

\* mutant of entity_id: only a string is taken from the field, as as_str does
entity_id_as_str(json, field, new_v4) ==
  IF is_some(get(json, field)) /\ get(json, field)[2][1] = "str"
  THEN get(json, field)[2][2]
  ELSE new_v4

\* the entity id; new_v4 is what Uuid::new_v4 returns when it is called
entity_id(json, field, new_v4) == unwrap_or(and_then_id(get(json, field)), new_v4)

\* drasi_core's ElementValue from a serde_json::Value
RECURSIVE into_element_value(_)
into_element_value(v) ==
  CASE v[1] = "null" -> <<"Null", "Null">>
    [] v[1] = "bool" -> <<"Bool", v[2]>>
    [] v[1] = "num" -> <<"Integer", v[2]>>
    [] v[1] = "str" -> <<"String", v[2]>>
    [] v[1] = "arr" -> <<"List", [i \in DOMAIN v[2] |-> into_element_value(v[2][i])]>>
    [] OTHER -> <<"Object", [k \in DOMAIN v[2] |-> into_element_value(v[2][k])]>>

\* the property map: the members of an object, nothing for another value
property_map(json) ==
  IF IsObject(json) THEN [k \in DOMAIN json[2] |-> into_element_value(json[2][k])]
  ELSE <<>>

\* mutant of source_change: an id that an earlier call produced makes the
\* change an Update
source_change_update_when_seen(json, field, node_label, op_mode, new_v4) ==
  [kind |-> IF /\ s_memo.set
               /\ s_memo.result.ok
               /\ s_memo.result.val.metadata.reference.element_id
                    = entity_id(json, field, new_v4)
            THEN "Update" ELSE op_mode,
   metadata |-> [reference |-> [source_id |-> node_label,
                                element_id |-> entity_id(json, field, new_v4)],
                 labels |-> <<node_label>>,
                 effective_from |-> 0],
   properties |-> property_map(json)]

\* the Node element and the change around it
source_change(json, field, node_label, op_mode, new_v4) ==
  [kind |-> op_mode,
   metadata |-> [reference |-> [source_id |-> node_label,
                                element_id |-> entity_id(json, field, new_v4)],
                 labels |-> <<node_label>>,
                 effective_from |-> 0],
   properties |-> property_map(json)]

\* mutant of map_parsed: a payload that does not parse is mapped as null
map_parsed_or_default(parsed, field, node_label, op_mode, new_v4) ==
  Ok(source_change(IF parsed.ok THEN parsed.val ELSE JNull, field, node_label,
                   op_mode, new_v4))

\* what follows the ? on from_slice
map_parsed(parsed, field, node_label, op_mode, new_v4) ==
  IF parsed.ok THEN Ok(source_change(parsed.val, field, node_label, op_mode, new_v4))
  ELSE parsed

payload_to_source_change(payload, field, node_label, op_mode, new_v4) ==
  map_parsed(from_slice(payload), field, node_label, op_mode, new_v4)

\* JSON documents a message can carry
PayloadDocs ==
  {JObj([id |-> JStr("sensor-1"), temp |-> JNum(25)]),
   JObj([id |-> JNum(42), temp |-> JNum(20)]),
   JObj([id |-> JStr("42")]),
   JObj([id |-> JStr("")]),
   JObj([id |-> JNum(0 - 5)]),
   JObj([device |-> JStr("d1"), id |-> JNum(7)]),
   JObj([temp |-> JNum(25)]),
   JObj([id |-> JBool(TRUE)]),
   JObj([id |-> JNull]),
   JObj([id |-> JObj([val |-> JNum(1)])]),
   JObj([id |-> JArr(<<JNum(1)>>)]),
   JArr(<<JNum(1)>>),
   JStr("d1")}

\* payloads that are not JSON
BadPayloads ==
  {<<"not", "json">>,
   <<"{", Quote("id")>>,
   <<"{", Quote("id"), ":", "7", "}", "}">>}

\* the payloads of the messages the source can receive
Payloads == {to_vec(d) : d \in PayloadDocs} \cup BadPayloads

\* MqttSourceConfig::id_field
IdFields == {"id", "device"}

InitSource ==
  /\ ReactionOff
  /\ LoopOff
  /\ id_field \in IdFields
  /\ mode \in OperationModes
  /\ s_input = <<>>
  /\ s_result = Err("none")
  /\ s_memo = NoCall
  /\ generated = <<>>

\* Uuid::new_v4 hands out new_v4 when the call asks for an identifier
issue(parsed, new_v4) ==
  generated' = IF parsed.ok /\ calls_new_v4(parsed.val, id_field)
               THEN Append(generated, new_v4)
               ELSE generated

\* the earlier call kept for comparison: the call before this one when keep
\* says so, otherwise the one already kept
KeptCall(keep) ==
  IF keep THEN [set |-> TRUE, input |-> s_input, result |-> s_result] ELSE s_memo

Mapped(payload, result, keep) ==
  /\ s_input' = payload
  /\ s_result' = result
  /\ s_memo' = KeptCall(keep)

\* the identifier the generator has ready is one it has not returned
\* before; the guard stops the calls that need one when MaxUuids are out.
\* A call that asks for none reads no identifier, and one value stands for
\* all of them.
fresh_for(parsed, new_v4) ==
  IF parsed.ok /\ calls_new_v4(parsed.val, id_field)
  THEN new_v4 \notin Range(generated)
  ELSE new_v4 = Uuid(1)

\* one call of payload_to_source_change; one call of a run is kept
MapPayload(payload, new_v4, keep) ==
  /\ pc = "off"
  /\ keep => (~s_memo.set /\ s_input # <<>>)
  /\ fresh_for(from_slice(payload), new_v4)
  /\ Mapped(payload,
            payload_to_source_change(payload, id_field, default_node_label, mode,
                                     new_v4),
            keep)
  /\ issue(from_slice(payload), new_v4)
  /\ UNCHANGED <<reaction_vars, id_field, mode, loop_vars>>

NextSource ==
  \E payload \in Payloads, new_v4 \in UuidPool, keep \in BOOLEAN :
    MapPayload(payload, new_v4, keep)

SpecSource == InitSource /\ [][NextSource]_vars

\* the decimal form of the numbers the documents carry under "id"
DecimalForm(n) ==
  CASE n = 42 -> "42"
    [] n = 7 -> "7"
    [] n = 0 - 5 -> "-5"

\* the entity id of the last change
LastEntityId == s_result.val.metadata.reference.element_id

\* C10: for a payload that is valid JSON, the entity id is the string under
\* the id field as it is, or the decimal form of the number under it, or
\* else (no such field, another type, not an object) a 36-character
\* identifier just generated that differs from every one generated before.
C10_EntityIdResolution ==
  \A d \in PayloadDocs :
    (s_input = to_vec(d)) =>
      /\ s_result.ok
      /\ LET has == IsObject(d) /\ id_field \in DOMAIN d[2]
         IN  IF has /\ d[2][id_field][1] = "str"
             THEN LastEntityId = d[2][id_field][2]
             ELSE IF has /\ d[2][id_field][1] = "num"
             THEN LastEntityId = DecimalForm(d[2][id_field][2])
             ELSE /\ Len(LastEntityId) = 36
                  /\ generated # <<>>
                  /\ LastEntityId = generated[Len(generated)]
                  /\ \A i, j \in DOMAIN generated :
                       i # j => generated[i] # generated[j]

\* two identifiers have been generated and the last payload has the number
\* 42 under the id field
C10_Witness ==
  /\ Len(generated) >= 2
  /\ id_field = "id"
  /\ s_input = to_vec(JObj([id |-> JNum(42), temp |-> JNum(20)]))
  /\ s_result.ok
  /\ LastEntityId = "42"

\* an identifier was generated for a payload whose id field holds a boolean,
\* after another one
C10_FallbackWitness ==
  /\ Len(generated) >= 2
  /\ id_field = "id"
  /\ s_input = to_vec(JObj([id |-> JBool(TRUE)]))
  /\ s_result.ok
  /\ LastEntityId = generated[Len(generated)]

\* C11: a payload whose bytes are not valid JSON gives a parse error and no
\* change event, whatever the id field and the operation mode.
C11_InvalidJsonIsParseError ==
  (s_input \in BadPayloads) => ~s_result.ok

\* a payload that is not JSON was mapped after identifiers had been generated
\* for other payloads, and no identifier was generated for it
C11_Witness ==
  /\ s_input = <<"not", "json">>
  /\ ~s_result.ok
  /\ mode = "Update"
  /\ id_field = "device"
  /\ Len(generated) = 2

\* the entity id of the kept change
KeptEntityId == s_memo.result.val.metadata.reference.element_id

C13_NonEmptyEntityId == s_result.ok => LastEntityId # ""

observe(seen, id) == [first |-> id \notin seen, seen |-> seen \cup {id}]

\* Insert for the first observation of an id, Update for a later one
first_seen_mode(seen, id) == IF observe(seen, id).first THEN "Insert" ELSE "Update"

\* the change and the set, for a payload that parsed
tracked_change(json, field, node_label, seen, new_v4) ==
  [result |-> Ok(source_change(json, field, node_label,
                               first_seen_mode(seen, entity_id(json, field, new_v4)),
                               new_v4)),
   seen |-> observe(seen, entity_id(json, field, new_v4)).seen]

tracked_parsed(parsed, field, node_label, seen, new_v4) ==
  IF parsed.ok THEN tracked_change(parsed.val, field, node_label, seen, new_v4)
  ELSE [result |-> parsed, seen |-> seen]

\* the mapper as the event loop calls it, with the set in the place of a mode
payload_to_source_change_seen(payload, field, node_label, seen, new_v4) ==
  tracked_parsed(from_slice(payload), field, node_label, seen, new_v4)

\* the JSON documents of the publishes the broker delivers
LoopDocs ==
  {JObj([id |-> JStr("sensor-1"), temp |-> JNum(25)]),
   JObj([id |-> JNum(42), temp |-> JNum(20)]),
   JObj([temp |-> JNum(25)])}

\* the payloads of the publishes: the documents, and one that is not JSON
LoopPayloads == {to_vec(d) : d \in LoopDocs} \cup {<<"not", "json">>}

\* mutant of seen_ids_clone: the task gets a set of its own, empty
seen_ids_new(set) == {}

\* self.seen_ids.clone(): the task's handle is to the source's set
seen_ids_clone(set) == set

\* mutant of after_mapping: the dispatch is left to run by itself and the
\* loop goes back to select!
after_mapping_detached(result) == "select"

\* where the loop goes after the mapper returned
after_mapping(result) == IF result.ok THEN "dispatch" ELSE "select"

\* mutant of after_dispatch: a dispatch error breaks the loop
after_dispatch_break(ok) == IF ok THEN "select" ELSE "stopped"

\* where the loop goes after dispatch_source_change returned
after_dispatch(ok) == "select"

InitLoop ==
  /\ ReactionOff
  /\ id_field = "id"
  /\ mode = "Insert"
  /\ s_input = <<>>
  /\ s_result = Err("none")
  /\ s_memo = NoCall
  /\ generated = <<>>
  /\ l_pc = "select"
  /\ arrived = <<>>
  /\ pending = None
  /\ dispatched = <<>>
  /\ seen_ids = {}
  /\ stop_requested = FALSE

\* the match on what the mapper returned
MatchMapped(event_no, mapped) ==
  /\ seen_ids' = mapped.seen
  /\ pending' = IF mapped.result.ok
                THEN Some([msg |-> event_no, change |-> mapped.result.val])
                ELSE None
  /\ l_pc' = after_mapping(mapped.result)

\* eventloop.poll returns a publish: the payload is mapped
PollPublish(payload, new_v4) ==
  /\ l_pc = "select"
  /\ Len(arrived) < MaxMessages
  /\ fresh_for(from_slice(payload), new_v4)
  /\ arrived' = Append(arrived, [kind |-> "Publish", payload |-> payload])
  /\ MatchMapped(Len(arrived) + 1,
                 payload_to_source_change_seen(payload, id_field,
                                               default_node_label,
                                               seen_ids_clone(seen_ids), new_v4))
  /\ issue(from_slice(payload), new_v4)
  /\ UNCHANGED <<reaction_vars, id_field, mode, s_input, s_result, s_memo,
                 dispatched, stop_requested>>

\* eventloop.poll returns another event, which is ignored
PollOther ==
  /\ l_pc = "select"
  /\ Len(arrived) < MaxMessages
  /\ arrived' = Append(arrived, [kind |-> "Other"])
  /\ UNCHANGED <<reaction_vars, id_field, mode, s_input, s_result, s_memo,
                 generated, l_pc, pending, dispatched, seen_ids, stop_requested>>

\* eventloop.poll returns a connection error, which is logged
PollErr ==
  /\ l_pc = "select"
  /\ Len(arrived) < MaxMessages
  /\ arrived' = Append(arrived, [kind |-> "Err"])
  /\ UNCHANGED <<reaction_vars, id_field, mode, s_input, s_result, s_memo,
                 generated, l_pc, pending, dispatched, seen_ids, stop_requested>>

\* base.dispatch_source_change returns, Ok or Err
Dispatch(ok) ==
  /\ l_pc = "dispatch"
  /\ dispatched' = Append(dispatched, [msg |-> pending[2].msg,
                                       change |-> pending[2].change,
                                       ok |-> ok])
  /\ pending' = None
  /\ l_pc' = after_dispatch(ok)
  /\ UNCHANGED <<reaction_vars, id_field, mode, s_input, s_result, s_memo,
                 generated, arrived, seen_ids, stop_requested>>

\* MqttSource::stop: the shutdown signal is sent
Stop ==
  /\ l_pc \in {"select", "dispatch"}
  /\ ~stop_requested
  /\ stop_requested' = TRUE
  /\ UNCHANGED <<reaction_vars, id_field, mode, s_input, s_result, s_memo,
                 generated, l_pc, arrived, pending, dispatched, seen_ids>>

\* the shutdown arm of select!
LoopShutdown ==
  /\ l_pc = "select"
  /\ stop_requested
  /\ l_pc' = "stopped"
  /\ UNCHANGED <<reaction_vars, id_field, mode, s_input, s_result, s_memo,
                 generated, arrived, pending, dispatched, seen_ids,
                 stop_requested>>

\* MqttSource::start after a stop: a new task on the same set
StartAgain ==
  /\ l_pc = "stopped"
  /\ l_pc' = "select"
  /\ stop_requested' = FALSE
  /\ UNCHANGED <<reaction_vars, id_field, mode, s_input, s_result, s_memo,
                 generated, arrived, pending, dispatched, seen_ids>>

NextLoop ==
  \/ \E payload \in LoopPayloads, new_v4 \in UuidPool : PollPublish(payload, new_v4)
  \/ PollOther
  \/ PollErr
  \/ \E ok \in BOOLEAN : Dispatch(ok)
  \/ Stop
  \/ LoopShutdown
  \/ StartAgain

SpecLoop == InitLoop /\ [][NextLoop]_vars

\* the changes the mapper has returned to the loop, in order: the dispatched
\* ones and the one being dispatched
Produced ==
  [i \in 1..Len(dispatched) |-> dispatched[i].change]
    \o (IF is_some(pending) THEN <<pending[2].change>> ELSE <<>>)

IdOf(change) == change.metadata.reference.element_id

ValidArrivals ==
  {i \in DOMAIN arrived :
     /\ arrived[i].kind = "Publish"
     /\ \E d \in LoopDocs : arrived[i].payload = to_vec(d)}

\* the numbers of the events whose change has been dispatched
DispatchedArrivals == {dispatched[k].msg : k \in DOMAIN dispatched}

\* C16: the source handles one publish at a time: when the loop takes the
\* next event, the change of every earlier publish has been dispatched, and
\* the changes are dispatched in the order their messages arrived, each the
\* mapping of its own message.
C16_OneAtATimeInOrder ==
  /\ \A k \in DOMAIN dispatched :
       /\ dispatched[k].msg \in ValidArrivals
       /\ \E d \in LoopDocs :
            /\ arrived[dispatched[k].msg].payload = to_vec(d)
            /\ dispatched[k].change.properties
                 = [f \in DOMAIN d[2] |-> into_element_value(d[2][f])]
       /\ \A m \in DOMAIN dispatched : k < m => dispatched[k].msg < dispatched[m].msg
  /\ l_pc \in {"select", "stopped"} =>
       (pending = None /\ DispatchedArrivals = ValidArrivals)
  /\ l_pc = "dispatch" =>
       /\ is_some(pending)
       /\ pending[2].msg = Len(arrived)
       /\ DispatchedArrivals = ValidArrivals \ {Len(arrived)}

\* two publishes with another event between them were dispatched, in the
\* order they arrived
C16_Witness ==
  /\ Len(arrived) = 3
  /\ arrived[2].kind = "Other"
  /\ Len(dispatched) = 2
  /\ dispatched[1].msg = 1
  /\ dispatched[2].msg = 3
  /\ IdOf(dispatched[1].change) = "42"
  /\ IdOf(dispatched[2].change) = "sensor-1"

\* the numbers of the events that are publishes of a payload that is not JSON
BadArrivals ==
  {i \in DOMAIN arrived :
     arrived[i].kind = "Publish" /\ arrived[i].payload = <<"not", "json">>}

\* C17: a malformed payload is dropped: no change is dispatched for it, now or
\* later; no message is dispatched twice, also when its dispatch failed; and
\* the loop is stopped only by the shutdown signal, so that after a parse
\* error, a dispatch error or a connection error every later publish is
\* still mapped and dispatched.
C17_ErrorsDoNotEndLoop ==
  /\ DispatchedArrivals \cap BadArrivals = {}
  /\ \A k, m \in DOMAIN dispatched : dispatched[k].msg = dispatched[m].msg => k = m
  /\ l_pc = "stopped" => stop_requested
  /\ l_pc = "select" => \A i \in ValidArrivals : i \in DispatchedArrivals
  /\ ~(is_some(pending) /\ pending[2].msg \in BadArrivals)

\* a dispatch failed, then a malformed payload arrived, then a publish that
\* was mapped and dispatched, and no shutdown was asked for
C17_Witness ==
  /\ Len(arrived) = 3
  /\ arrived[2].kind = "Publish"
  /\ arrived[2].payload = <<"not", "json">>
  /\ Len(dispatched) = 2
  /\ dispatched[1].msg = 1
  /\ ~dispatched[1].ok
  /\ dispatched[2].msg = 3
  /\ l_pc = "select"
  /\ ~stop_requested

\* a connection error was polled, and the publish after it was dispatched
C17_ConnectionErrorWitness ==
  /\ Len(arrived) = 2
  /\ arrived[1].kind = "Err"
  /\ Len(dispatched) = 1
  /\ dispatched[1].msg = 2
  /\ l_pc = "select"
  /\ ~stop_requested

(***************************************************************************)
(* The reaction's processing loop with the history of its publish attempts *)
(* kept, over a few query results.                                         *)
(***************************************************************************)
\* query results of no, one and two messages in split mode
FewResults ==
  [query_id : QueryIds,
   results : {<<>>,
              <<[kind |-> "Delete", data |-> E1]>>,
              <<[kind |-> "Add", data |-> E1],
                [kind |-> "Update", before |-> E1, after |-> E2]>>}]

InitPublish ==
  /\ topic_template \in {<<"static/topic">>,
                         <<"devices/", "{{", "device", "}}", "/data">>}
  /\ payload_template = None
  /\ sequence = 0
  /\ pc = "select"
  /\ batch = NoBatch
  /\ outcome = Ok(<<>>)
  /\ published = <<>>
  /\ last_publish = "none"
  /\ memo = NoMemo
  /\ dequeued = NoDequeued
  /\ lifecycle = NoLifecycle
  /\ history = [on |-> TRUE, attempts |-> <<>>, observed |-> [q \in QueryIds |-> 0]]
  /\ SourceOff

NextPublish ==
  \/ \E result \in FewResults : Dequeue(result)
  \/ PublishOk
  \/ PublishErr
  \/ EndIteration
  \/ Shutdown

SpecPublish == InitPublish /\ [][NextPublish]_vars

\* the attempts of the run
Attempts == history.attempts

\* C18: when a publish fails, the reaction still attempts every remaining
\* message of the render result and goes on to the next batches: the attempt
\* after a failed one is for the next message of the same result, or, after
\* the last message, for the first message of a later batch; at the end of
\* the loop body every message has been attempted; and the loop is never
\* stopped by a publish.
C18_PublishFailureDoesNotAbort ==
  /\ \A k \in DOMAIN Attempts :
       (~Attempts[k].ok /\ k < Len(Attempts)) =>
         IF Attempts[k].index < Attempts[k].of
         THEN /\ Attempts[k + 1].sequence = Attempts[k].sequence
              /\ Attempts[k + 1].index = Attempts[k].index + 1
         ELSE /\ Attempts[k + 1].sequence > Attempts[k].sequence
              /\ Attempts[k + 1].index = 1
  /\ (pc = "iter_end" /\ outcome.ok) => Len(published) = Len(outcome.val)
  /\ (pc = "publish" /\ last_publish = "err") => Len(published) < Len(outcome.val)
  /\ pc = "stopped" => last_publish = "none"

\* the first publish of the first batch failed, its second message was
\* attempted all the same, and a message of the second batch was published
C18_Witness ==
  /\ Len(Attempts) = 3
  /\ Attempts[1] = [sequence |-> 1, index |-> 1, of |-> 2, ok |-> FALSE]
  /\ Attempts[2].sequence = 1
  /\ Attempts[2].index = 2
  /\ Attempts[3].sequence = 2
  /\ Attempts[3].ok

\* C19: for each query id, the sequence number passed to result_to_payload
\* is the number of results that query id has delivered so far: 1 for its
\* first, and one more for each later one.
C19_SequencePerQueryId ==
  Called => batch.sequence = history.observed[batch.query_id]

\* C20: the messages of a render result are attempted one at a time in list
\* order, and every attempt for one dequeued batch comes before any attempt
\* for the next one.
C20_PublishOrder ==
  /\ Called =>
       /\ Len(published) <= Len(outcome.val)
       /\ \A i \in DOMAIN published : published[i] = outcome.val[i]
       /\ \A k \in DOMAIN Attempts :
            Attempts[k].sequence = sequence =>
              /\ Attempts[k].index = k - (Len(Attempts) - Len(published))
              /\ Attempts[k].of = Len(outcome.val)
  /\ \A k \in DOMAIN Attempts :
       /\ Attempts[k].index \in 1..Attempts[k].of
       /\ k < Len(Attempts) =>
            \/ /\ Attempts[k + 1].sequence = Attempts[k].sequence
               /\ Attempts[k + 1].index = Attempts[k].index + 1
            \/ /\ Attempts[k + 1].sequence > Attempts[k].sequence
               /\ Attempts[k].index = Attempts[k].of
               /\ Attempts[k + 1].index = 1

\* two messages of the first batch and then two of the second were
\* attempted, to different topics within the batch
C20_Witness ==
  /\ pc = "iter_end"
  /\ sequence = 2
  /\ Len(Attempts) = 4
  /\ Attempts[2] = [sequence |-> 1, index |-> 2, of |-> 2, ok |-> TRUE]
  /\ Attempts[3].sequence = 2
  /\ Len(published) = 2
  /\ published[1][1] = "devices/d1/data"
  /\ published[2][1] = "devices/d2/data"

(***************************************************************************)
(* The reaction's processing loop with the diffs of the dequeued result    *)
(* kept, over every query result.                                          *)
(***************************************************************************)
InitSplit ==
  /\ topic_template \in {<<"static/topic">>,
                         <<"devices/", "{{", "device", "}}", "/data">>}
  /\ payload_template = None
  /\ sequence = 0
  /\ pc = "select"
  /\ batch = NoBatch
  /\ outcome = Ok(<<>>)
  /\ published = <<>>
  /\ last_publish = "none"
  /\ memo = NoMemo
  /\ dequeued = [on |-> TRUE, results |-> <<>>]
  /\ lifecycle = NoLifecycle
  /\ history = NoHistory
  /\ SourceOff

NextSplit ==
  \/ \E result \in QueryResults : Dequeue(result)
  \/ PublishOk
  \/ PublishErr
  \/ EndIteration
  \/ Shutdown

SpecSplit == InitSplit /\ [][NextSplit]_vars

\* the diffs of one kind, in diff order
OfKind(results, kind) == SelectSeq(results, LAMBDA diff : diff.kind = kind)

\* one field of every diff
FieldOf(results, field) == [i \in 1..Len(results) |-> results[i][field]]

\* C21: for the dequeued query result, added is the data of the Add diffs in
\* diff order, updated is the after value (and nothing else) of the Update
\* diffs in diff order, removed is the data of the Delete diffs in diff
\* order, and diffs of any other kind appear in no list; the lists keep the
\* order within a kind and nothing of the order between kinds.
C21_ListsInDiffOrder ==
  (dequeued.on /\ Called) =>
    /\ batch.added = FieldOf(OfKind(dequeued.results, "Add"), "data")
    /\ batch.updated = FieldOf(OfKind(dequeued.results, "Update"), "after")
    /\ batch.removed = FieldOf(OfKind(dequeued.results, "Delete"), "data")
    /\ Total = Cardinality({i \in DOMAIN dequeued.results :
                              dequeued.results[i].kind
                                \in {"Add", "Update", "Delete"}})

\* an Update before an Add: the lists hold the Add's data first
C21_Witness ==
  /\ dequeued.on
  /\ Called
  /\ dequeued.results = <<[kind |-> "Update", before |-> E1, after |-> E3],
                          [kind |-> "Add", data |-> E2]>>
  /\ AllEntities = <<E2, E3>>

\* a diff of another kind between two Deletes leaves nothing behind
C21_OtherKindWitness ==
  /\ dequeued.on
  /\ Called
  /\ Len(dequeued.results) = 2
  /\ dequeued.results[1] = [kind |-> "Noop"]
  /\ dequeued.results[2].kind = "Delete"
  /\ Total = 1

(***************************************************************************)
(* start() and stop() of the reaction with the two tasks start() spawns:   *)
(* the event loop driver and the processing loop.  Each task, once it can  *)
(* take a step, is scheduled; nothing makes anyone call start() or stop(). *)
(***************************************************************************)
\* MqttReaction::new leaves no client handle and no task
InitStop ==
  /\ topic_template \in {<<"static/topic">>,
                         <<"devices/", "{{", "device", "}}", "/data">>}
  /\ payload_template = None
  /\ sequence = 0
  /\ pc = "off"
  /\ batch = NoBatch
  /\ outcome = Ok(<<>>)
  /\ published = <<>>
  /\ last_publish = "none"
  /\ memo = NoMemo
  /\ dequeued = NoDequeued
  /\ history = NoHistory
  /\ lifecycle = [on |-> TRUE, client |-> None, eventloop |-> "none",
                  stop |-> "idle", shutdown |-> FALSE]
  /\ SourceOff

\* start(): the client handle is stored, then subscribe_to_queries either
\* fails, and start() returns before any task is spawned, or both tasks are
\* spawned
Start(subscribed) ==
  /\ lifecycle.on
  /\ pc = "off"
  /\ lifecycle.client = None
  /\ lifecycle.stop = "idle"
  /\ lifecycle' = [lifecycle EXCEPT
                     !.client = Some("client"),
                     !.eventloop = IF subscribed THEN "poll" ELSE @]
  /\ pc' = IF subscribed THEN "select" ELSE pc
  /\ UNCHANGED <<topic_template, payload_template, sequence, batch, outcome,
                 published, last_publish, memo, dequeued, history, source_vars>>

\* the driver task: eventloop.poll() returns Ok and the loop polls again
EventloopPollOk ==
  /\ lifecycle.on
  /\ lifecycle.eventloop = "poll"
  /\ UNCHANGED vars

\* the driver task: eventloop.poll() returns Err and the task sleeps a second
EventloopPollErr ==
  /\ lifecycle.on
  /\ lifecycle.eventloop = "poll"
  /\ lifecycle' = [lifecycle EXCEPT !.eventloop = "sleep"]
  /\ UNCHANGED <<topic_template, payload_template, sequence, pc, batch, outcome,
                 published, last_publish, memo, dequeued, history, source_vars>>

\* the driver task: the sleep is over and the loop polls again
EventloopWake ==
  /\ lifecycle.on
  /\ lifecycle.eventloop = "sleep"
  /\ lifecycle' = [lifecycle EXCEPT !.eventloop = "poll"]
  /\ UNCHANGED <<topic_template, payload_template, sequence, pc, batch, outcome,
                 published, last_publish, memo, dequeued, history, source_vars>>

\* stop(): the client handle is taken out and disconnected
StopTake ==
  /\ lifecycle.on
  /\ lifecycle.stop = "idle"
  /\ lifecycle.client # None
  /\ lifecycle' = [lifecycle EXCEPT !.client = None, !.stop = "taken"]
  /\ UNCHANGED <<topic_template, payload_template, sequence, pc, batch, outcome,
                 published, last_publish, memo, dequeued, history, source_vars>>

\* stop(): stop_common sends the shutdown signal
StopCommon ==
  /\ lifecycle.on
  /\ lifecycle.stop = "taken"
  /\ lifecycle' = [lifecycle EXCEPT !.shutdown = TRUE, !.stop = "signalled"]
  /\ UNCHANGED <<topic_template, payload_template, sequence, pc, batch, outcome,
                 published, last_publish, memo, dequeued, history, source_vars>>

\* stop() returns, before or after the processing loop has seen the signal
StopReturn ==
  /\ lifecycle.on
  /\ lifecycle.stop = "signalled"
  /\ lifecycle' = [lifecycle EXCEPT !.stop = "returned"]
  /\ UNCHANGED <<topic_template, payload_template, sequence, pc, batch, outcome,
                 published, last_publish, memo, dequeued, history, source_vars>>

ProcessingTask ==
  \/ \E result \in FewResults : Dequeue(result)
  \/ PublishOk
  \/ PublishErr
  \/ EndIteration
  \/ Shutdown

EventloopTask ==
  \/ EventloopPollOk
  \/ EventloopPollErr
  \/ EventloopWake

NextStop ==
  \/ \E subscribed \in BOOLEAN : Start(subscribed)
  \/ ProcessingTask
  \/ EventloopTask
  \/ StopTake
  \/ StopCommon
  \/ StopReturn

SpecStop ==
  /\ InitStop
  /\ [][NextStop]_vars
  /\ WF_vars(ProcessingTask)
  /\ WF_vars(EventloopTask)
  /\ WF_vars(StopCommon \/ StopReturn)

StopReturned == lifecycle.on /\ lifecycle.stop = "returned"

\* the processing loop is not running: never spawned, or left by break
ProcessingTerminated == pc \in {"off", "stopped"}

\* the driver task is not running
EventloopTerminated == lifecycle.eventloop \notin {"poll", "sleep"}

\* C22: once stop() has returned the client handle is cleared, and from then
\* on both tasks spawned by start() eventually have terminated: the
\* processing loop and the event loop driver no longer poll.
C22_TasksTerminateAfterStop ==
  /\ [](StopReturned => lifecycle.client = None)
  /\ StopReturned ~> (ProcessingTerminated /\ EventloopTerminated)

\* the part of C22 about the client handle
C22_ClientCleared == StopReturned => lifecycle.client = None

\* the part of C22 about the processing loop
C22_ProcessingLoopStops == StopReturned ~> ProcessingTerminated

\* the driver task, once spawned, is polling or sleeping ever after
C22_DriverNeverEnds ==
  [][~EventloopTerminated => ~EventloopTerminated']_vars

\* the names an entity uses that the reaction injects
OwnInjected(e) == (DOMAIN e[2]) \cap InjectedKeys

\* C23: in split mode, for an entity that has a field of its own named
\* query_id, sequence or op, the context holds under each of the three names
\* the injected value and not the entity's, and under every other name the
\* entity's value; so does the default payload, and a topic rendered from the
\* three names shows the injected values.
C23_InjectedKeysWin ==
  (pc = "direct" /\ SplitConfig /\ outcome.ok) =>
    \A i \in 1..Total :
      (IsObject(AllEntities[i]) /\ OwnInjected(AllEntities[i]) # {}) =>
        /\ topic_template = MetaTopic =>
             outcome.val[i][1] = MetaTopicOf(OpAt(i))
        /\ payload_template = None =>
             LET d == from_slice(outcome.val[i][2])
                 e == AllEntities[i][2]
             IN /\ d.ok /\ IsObject(d.val)
                /\ DOMAIN d.val[2] = (DOMAIN e) \cup InjectedKeys
                /\ d.val[2]["query_id"] = JStr(batch.query_id)
                /\ d.val[2]["sequence"] = JNum(batch.sequence)
                /\ d.val[2]["op"] = JStr(OpAt(i))
                /\ \A k \in (DOMAIN e) \ InjectedKeys : d.val[2][k] = e[k]

\* an updated entity with its own query_id, sequence and op: the payload
\* holds the call's values, none of the entity's, and the entity's device
C23_Witness ==
  /\ pc = "direct" /\ SplitConfig /\ outcome.ok
  /\ payload_template = None
  /\ batch.updated = <<E4>>
  /\ batch.query_id = "q1"
  /\ batch.sequence = 2
  /\ from_slice(outcome.val[2][2]) =
       Ok(JObj([device |-> JStr("d2"), op |-> JStr("update"),
                query_id |-> JStr("q1"), sequence |-> JNum(2)]))

\* the same entity under a topic template of the three names
C23_TopicWitness ==
  /\ pc = "direct" /\ outcome.ok
  /\ topic_template = MetaTopic
  /\ batch.added = <<E4>>
  /\ batch.query_id = "q2"
  /\ batch.sequence = 1
  /\ outcome.val[1][1] = "q2/insert/1"

=============================================================================
